---------------------------- MODULE Spec2Model ----------------------------
(***************************************************************************)
(* Model of examples/classify/semi_supervised/img/scripts/create_datasets.py *)
(*                                                                         *)
(* Four specifications share this module:                                  *)
(*   Spec          the driver main() over CONFIGS and the data directory   *)
(*   SpecWriter    _encode_png followed by _save_as_tfrecord on one split  *)
(*   SpecLoaders   the loaders, their temporary files and their results    *)
(*   SpecUnflatten the unflatten helpers of the CIFAR and STL-10 loaders   *)
(*                                                                         *)
(* Paths under core.DATA_DIR are tuples of their string pieces, so that    *)
(* '%s-%s.tfrecord' % (name, subset) and filename + '.tfrecord' are built  *)
(* the way the code builds them and only agree if the pieces agree.        *)
(***************************************************************************)
EXTENDS Integers, Sequences, FiniteSets, TLC

VARIABLES
    \* ---- driver (Spec)
    argv,         \* argv[1:] of the current run of main
    fs,           \* the data directory: existing path -> file content
    disk,         \* the local image folder _load_voets reads
    pc,           \* position of main: idle, loop, checked, save, done, raised
    it,           \* index of the for loop over CONFIGS.items()
    installed,    \* what the last call of _is_installed returned
    datas,        \* the loader's result still to be saved, in dict order
    loaderCalls,  \* history: loader invocations of the current run
    processed,    \* history: names whose loader the current run invoked
    considered,   \* history: names that passed `name not in subset`
    fs0,          \* history: the data directory when the current run began
    prev,         \* history: how the previous run ended
    runs,         \* history: number of runs of main started
    errs,         \* history: exceptions raised by a loader or the writer in this run
    \* ---- writer (SpecWriter)
    wpc, wRaw, wLabels, wData, wFs,
    \* ---- loaders (SpecLoaders)
    lname, lpc, lblk, temps, made, exc, lacc, lres, seed, rawY,
    \* ---- unflatten (SpecUnflatten)
    upc, uFlat, uOut

drvVars == <<argv, fs, disk, pc, it, installed, datas, loaderCalls, processed,
             considered, fs0, prev, runs, errs>>
wrVars  == <<wpc, wRaw, wLabels, wData, wFs>>
ldVars  == <<lname, lpc, lblk, temps, made, exc, lacc, lres, seed, rawY>>
ufVars  == <<upc, uFlat, uOut>>
vars    == <<drvVars, wrVars, ldVars, ufVars>>

---------------------------------------------------------------------------
(* Bounds of the model *)

\* images per class folder of the local dataset
MaxImgs == 1
\* runs of main in one behaviour
MaxRuns == 2
\* images / labels of the split handed to the writer
MaxLen == 2
\* images and labels a downloaded source file may hold
MaxN == 2
\* batch size of the buffers handed to unflatten
MaxBatch == 1
\* side of a CIFAR image in the model (32 in the code)
CifarSide == 2
\* side of an STL-10 image in the model (96 in the code)
StlSide == 2
\* size of the STL-10 unlabeled label array in the model (100000 in the code)
StlUnlabeled == 1

---------------------------------------------------------------------------
(* Helpers *)

\* what the actions of one specification leave alone
DrvFrame == UNCHANGED <<wrVars, ldVars, ufVars>>
WrFrame == UNCHANGED <<drvVars, ldVars, ufVars>>
LdFrame == UNCHANGED <<drvVars, wrVars, ufVars>>
UfFrame == UNCHANGED <<drvVars, wrVars, ldVars>>

Range(s) == {s[i] : i \in 1..Len(s)}

Min(a, b) == IF a <= b THEN a ELSE b

\* np.zeros(n) / np.ones(n) as label lists
Zeros(n) == [i \in 1..n |-> 0]
Ones(n) == [i \in 1..n |-> 1]

\* objax.util.image.to_png: one raw image -> one PNG blob (lossless)
to_png(img) == <<"PNG", img>>

\* _encode_png: [to_png(images[x]) for x in trange(images.shape[0])]
RECURSIVE EncodeFrom(_, _)
EncodeFrom(images, x) ==
    IF x > Len(images) THEN <<>>
    ELSE <<to_png(images[x])>> \o EncodeFrom(images, x + 1)

_encode_png(images) == EncodeFrom(images, 1)

---------------------------------------------------------------------------
(* The data directory and the record writer *)

exists(fsv, path) == path \in DOMAIN fsv

\* opening a path for writing and closing it with `content`
WriteFile(fsv, path, content) ==
    [p \in (DOMAIN fsv) \cup {path} |-> IF p = path THEN content ELSE fsv[p]]

\* '%s-%s' % (name, sub_name)
DashName(name, sub) == <<name, "-", sub>>

\* os.path.join(core.DATA_DIR, filename + '.tfrecord')
SavePath(filename) == Append(filename, ".tfrecord")

InstalledPathUnderscore(name, subset) == <<name, "_", subset, ".tfrecord">>

\* os.path.join(core.DATA_DIR, '%s-%s.tfrecord' % (name, subset))
InstalledPath(name, subset) == <<name, "-", subset, ".tfrecord">>

\* the assertion of _save_as_tfrecord
SaveAssertion(data) == Len(data.images) = Len(data.labels)

\* tf.train.Example with the two features image (bytes) and label (int64)
Example(image, label) == [image |-> image, label |-> label]

\* the loop of _save_as_tfrecord: records x..n appended to acc
RECURSIVE WriteLoop(_, _, _, _)
WriteLoop(data, x, n, acc) ==
    IF x > n THEN acc
    ELSE WriteLoop(data, x + 1, n,
                   Append(acc, Example(data.images[x], data.labels[x])))

RecordsDropLast(data, n) ==
    WriteLoop(data, 1, IF n > 0 THEN n - 1 ELSE 0, <<>>)

\* the records written when the loop is left after n of them
Records(data, n) == WriteLoop(data, 1, n, <<>>)

\* _save_as_tfrecord running to completion (its assertion holds)
_save_as_tfrecord(fsv, data, filename) ==
    WriteFile(fsv, SavePath(filename), Records(data, Len(data.images)))

\* _save_as_tfrecord leaving the writer after k records (a write raised)
SavePartial(fsv, data, filename, k) ==
    WriteFile(fsv, SavePath(filename), Records(data, k))

\* the loop of _is_installed over checksums.items(), from item i on
RECURSIVE InstalledFrom(_, _, _, _)
InstalledFrom(fsv, name, checksums, i) ==
    IF i > Len(checksums) THEN TRUE
    ELSE IF ~exists(fsv, InstalledPath(name, checksums[i])) THEN FALSE
    ELSE InstalledFrom(fsv, name, checksums, i + 1)

_is_installed_any(fsv, name, checksums) ==
    \E i \in 1..Len(checksums) : exists(fsv, InstalledPath(name, checksums[i]))

_is_installed(fsv, name, checksums) == InstalledFrom(fsv, name, checksums, 1)

---------------------------------------------------------------------------
(* _load_voets: the local image folder *)

\* the folder's state: missing, or the number of *.jpg files per class folder
Disks ==
    [present : {TRUE}, train0 : 0..MaxImgs, train1 : 0..MaxImgs,
     test0 : 0..MaxImgs, test1 : 0..MaxImgs]
    \cup {[present |-> FALSE, train0 |-> 0, train1 |-> 0, test0 |-> 0, test1 |-> 0]}

\* [os.path.join(DIR, cls, x) for x in fnmatch.filter(os.listdir(...), "*.jpg")]
Listing(dir, cls, n) == [i \in 1..n |-> <<dir, cls, i>>]

\* np.array(Image.open(fname).resize((IMG_SIZE, IMG_SIZE)))
OpenResized(fname) == <<"img", fname>>

VoetsSet(dir, n0, n1) ==
    LET imgs0 == Listing(dir, "0", n0)
        imgs1 == Listing(dir, "1", n1)
        imgs  == imgs0 \o imgs1
        raw   == [i \in 1..Len(imgs) |-> OpenResized(imgs[i])]
    IN  [images |-> _encode_png(raw),
         labels |-> Zeros(Len(imgs0)) \o Ones(Len(imgs1))]

\* os.listdir raises when the folder is missing
VoetsRaises(d) == ~d.present

_load_voets_train_only(d) ==
    << <<"train", VoetsSet("train", d.train0, d.train1)>> >>

\* dict(train=train_set, test=test_set), in dict order
_load_voets(d) ==
    << <<"train", VoetsSet("train", d.train0, d.train1)>>,
       <<"test", VoetsSet("test", d.test0, d.test1)>> >>

---------------------------------------------------------------------------
(* CONFIGS and main *)

\* CONFIGS.items(): the one entry that is not commented out
ConfigNames == <<"voets">>

CONFIGS == [voets |-> [loader |-> "_load_voets", checksums |-> <<"train", "test">>]]

\* command lines: none, the configured name, names that are not configured
Argvs == {<<>>, <<"voets">>, <<"cifar10">>, <<"voets", "bogus">>}

SubsetAll(args) == Range(ConfigNames)

\* set(argv[1:]) if len(argv[1:]) else set(CONFIGS.keys())
Subset(args) == IF Len(args) > 0 THEN Range(args) ELSE Range(ConfigNames)

\* files the data directory may hold before the first run
Truncated == <<>>
Stale == <<Example(<<"PNG", "old">>, 9)>>

InitPaths ==
    {InstalledPath("voets", "train"), InstalledPath("voets", "test"),
     InstalledPath("voets", "extra")}

InitFss == UNION {[S -> {Truncated, Stale}] : S \in SUBSET InitPaths}

NoPrev == [status |-> "none", argv |-> <<>>, processed |-> {}]

DrvInit ==
    /\ argv = <<>>
    /\ fs \in InitFss
    /\ disk \in Disks
    /\ pc = "idle"
    /\ it = 1
    /\ installed = FALSE
    /\ datas = <<>>
    /\ loaderCalls = 0
    /\ processed = {}
    /\ considered = {}
    /\ fs0 = fs
    /\ prev = NoPrev
    /\ runs = 0
    /\ errs = 0

DrvIdle ==
    /\ argv = <<>> /\ fs = <<>> /\ pc = "off"
    /\ disk = [present |-> FALSE, train0 |-> 0, train1 |-> 0, test0 |-> 0, test1 |-> 0]
    /\ it = 1 /\ installed = FALSE /\ datas = <<>> /\ loaderCalls = 0
    /\ processed = {} /\ considered = {} /\ fs0 = <<>> /\ prev = NoPrev
    /\ runs = 0 /\ errs = 0

\* main(argv), up to the for loop: a new run of the script
Main ==
    /\ pc \in {"idle", "done", "raised"}
    /\ runs < MaxRuns
    /\ \E args \in Argvs : argv' = args
    /\ prev' = [status |-> pc, argv |-> argv, processed |-> processed]
    /\ runs' = runs + 1
    /\ fs0' = fs
    /\ it' = 1
    /\ loaderCalls' = 0
    /\ processed' = {}
    /\ considered' = {}
    /\ datas' = <<>>
    /\ errs' = 0
    /\ pc' = "loop"
    /\ UNCHANGED <<fs, disk, installed>>
    /\ DrvFrame

\* if name not in subset: continue
NotRequested ==
    /\ pc = "loop"
    /\ it <= Len(ConfigNames)
    /\ ConfigNames[it] \notin Subset(argv)
    /\ it' = it + 1
    /\ UNCHANGED <<argv, fs, disk, pc, installed, datas, loaderCalls, processed,
                   considered, fs0, prev, runs>>
    /\ errs' = errs
    /\ DrvFrame

\* config['is_installed']() if the entry has one, else _is_installed(...)
CheckInstalled ==
    /\ pc = "loop"
    /\ it <= Len(ConfigNames)
    /\ ConfigNames[it] \in Subset(argv)
    /\ LET name == ConfigNames[it]
           config == CONFIGS[name]
       IN  /\ installed' = IF "is_installed" \in DOMAIN config
                           THEN config.is_installed
                           ELSE _is_installed(fs, name, config.checksums)
           /\ considered' = considered \cup {name}
    /\ pc' = "checked"
    /\ UNCHANGED <<argv, fs, disk, it, datas, loaderCalls, processed, fs0, prev, runs>>
    /\ errs' = errs
    /\ DrvFrame

\* print('Skipping already installed:', name); continue
SkipInstalled ==
    /\ pc = "checked"
    /\ installed
    /\ it' = it + 1
    /\ pc' = "loop"
    /\ UNCHANGED <<argv, fs, disk, installed, datas, loaderCalls, processed,
                   considered, fs0, prev, runs>>
    /\ errs' = errs
    /\ DrvFrame

\* datas = config['loader']() returning; the one configured loader is _load_voets
LoadOk ==
    /\ pc = "checked"
    /\ ~installed
    /\ ~VoetsRaises(disk)
    /\ loaderCalls' = loaderCalls + 1
    /\ processed' = processed \cup {ConfigNames[it]}
    /\ datas' = _load_voets(disk)
    /\ pc' = "save"
    /\ UNCHANGED <<argv, fs, disk, it, installed, considered, fs0, prev, runs>>
    /\ errs' = errs
    /\ DrvFrame

\* datas = config['loader']() raising: nothing catches it
LoadRaises ==
    /\ pc = "checked"
    /\ ~installed
    /\ VoetsRaises(disk)
    /\ loaderCalls' = loaderCalls + 1
    /\ processed' = processed \cup {ConfigNames[it]}
    /\ pc' = "raised"
    /\ UNCHANGED <<argv, fs, disk, it, installed, datas, considered, fs0, prev, runs>>
    /\ errs' = errs + 1
    /\ DrvFrame

\* the body of `for sub_name, data in datas.items()` for one entry, completing
SaveEntry(fsv, name, sub_name, data) ==
    IF sub_name = "readme"
    THEN WriteFile(fsv, <<name, "-", sub_name, ".txt">>, data)
    ELSE IF sub_name = "files"
    THEN WriteFile(fsv, <<data[1].filename>>, data[1].data)
    ELSE _save_as_tfrecord(fsv, data, DashName(name, sub_name))

\* one entry of datas saved; the writer's assertion failing ends the run
SaveSplit ==
    /\ pc = "save"
    /\ datas # <<>>
    /\ LET name == ConfigNames[it]
           sub_name == datas[1][1]
           data == datas[1][2]
       IN  IF sub_name \notin {"readme", "files"} /\ ~SaveAssertion(data)
           THEN /\ pc' = "raised"
                /\ errs' = errs + 1
                /\ UNCHANGED <<fs, datas>>
           ELSE /\ fs' = SaveEntry(fs, name, sub_name, data)
                /\ datas' = Tail(datas)
                /\ UNCHANGED <<pc, errs>>
    /\ UNCHANGED <<argv, disk, it, installed, loaderCalls, processed, considered,
                   fs0, prev, runs>>
    /\ DrvFrame

SaverRaisesCaught ==
    /\ pc = "save"
    /\ datas # <<>>
    /\ \E k \in 0..Len(datas[1][2].images) :
         fs' = SavePartial(fs, datas[1][2], DashName(ConfigNames[it], datas[1][1]), k)
    /\ datas' = Tail(datas)
    /\ UNCHANGED <<argv, disk, pc, it, installed, loaderCalls, processed, considered,
                   fs0, prev, runs>>
    /\ errs' = errs + 1
    /\ DrvFrame

\* writer.write raising after k records: the file stays, the run ends
SaverRaises ==
    /\ pc = "save"
    /\ datas # <<>>
    /\ \E k \in 0..Len(datas[1][2].images) :
         fs' = SavePartial(fs, datas[1][2], DashName(ConfigNames[it], datas[1][1]), k)
    /\ pc' = "raised"
    /\ UNCHANGED <<argv, disk, it, installed, datas, loaderCalls, processed, considered,
                   fs0, prev, runs>>
    /\ errs' = errs + 1
    /\ DrvFrame

\* the loop over datas is exhausted: next item of CONFIGS
EndSplits ==
    /\ pc = "save"
    /\ datas = <<>>
    /\ it' = it + 1
    /\ pc' = "loop"
    /\ UNCHANGED <<argv, fs, disk, installed, datas, loaderCalls, processed,
                   considered, fs0, prev, runs>>
    /\ errs' = errs
    /\ DrvFrame

\* the loop over CONFIGS is exhausted: main returns
MainReturn ==
    /\ pc = "loop"
    /\ it > Len(ConfigNames)
    /\ pc' = "done"
    /\ UNCHANGED <<argv, fs, disk, it, installed, datas, loaderCalls, processed,
                   considered, fs0, prev, runs>>
    /\ errs' = errs
    /\ DrvFrame

Next ==
    \/ Main
    \/ NotRequested
    \/ CheckInstalled
    \/ SkipInstalled
    \/ LoadOk
    \/ LoadRaises
    \/ SaveSplit
    \/ SaverRaises
    \/ EndSplits
    \/ MainReturn

---------------------------------------------------------------------------
(* _encode_png followed by _save_as_tfrecord, on one split *)

RawImgs == {"a", "b"}
LabelVals == {0, 1, 2}

SeqsUpTo(S, n) == UNION {[1..k -> S] : k \in 0..n}

WriterPath == SavePath(DashName("synthetic", "train"))

WrInit ==
    /\ wpc = "start"
    /\ wRaw \in SeqsUpTo(RawImgs, MaxLen)
    /\ wLabels \in SeqsUpTo(LabelVals, MaxLen)
    /\ wData = [images |-> <<>>, labels |-> <<>>]
    /\ wFs \in {<<>>, [p \in {WriterPath} |-> Stale]}

WrIdle ==
    /\ wpc = "off" /\ wRaw = <<>> /\ wLabels = <<>>
    /\ wData = [images |-> <<>>, labels |-> <<>>] /\ wFs = <<>>

\* dataset['images'] = _encode_png(images), as every loader does
WEncode ==
    /\ wpc = "start"
    /\ wData' = [images |-> _encode_png(wRaw), labels |-> wLabels]
    /\ wpc' = "encoded"
    /\ UNCHANGED <<wRaw, wLabels, wFs>>
    /\ WrFrame

\* _save_as_tfrecord(data, 'synthetic-train') with its assertion holding
WSave ==
    /\ wpc = "encoded"
    /\ SaveAssertion(wData)
    /\ wFs' = _save_as_tfrecord(wFs, wData, DashName("synthetic", "train"))
    /\ wpc' = "saved"
    /\ UNCHANGED <<wRaw, wLabels, wData>>
    /\ WrFrame

\* _save_as_tfrecord(data, 'synthetic-train') with its assertion failing
WSaveAssertFails ==
    /\ wpc = "encoded"
    /\ ~SaveAssertion(wData)
    /\ wpc' = "raised"
    /\ UNCHANGED <<wRaw, wLabels, wData, wFs>>
    /\ WrFrame

NextWriter ==
    \/ WEncode
    \/ WSave
    \/ WSaveAssertFails

---------------------------------------------------------------------------
(* The loaders: their `with tempfile.NamedTemporaryFile()` blocks and results *)

Loaders ==
    {"_load_svhn", "_load_stl10", "_load_cifar10", "_load_cifar100",
     "_load_mnist", "_load_fashionmnist", "_load_voets"}

\* number of training batches of CIFAR-10: range(1, 6)
CifarBatches == 5

Block(kind, split) == [kind |-> kind, split |-> split]

\* the with-blocks a loader enters, in program order
Blocks(l) ==
    CASE l = "_load_svhn" ->
           <<Block("svhn_mat", "train"), Block("svhn_mat", "test"),
             Block("svhn_mat", "extra")>>
      [] l = "_load_stl10" -> <<Block("stl10_tar", "all")>>
      [] l = "_load_cifar10" -> <<Block("cifar10_tar", "all")>>
      [] l = "_load_cifar100" -> <<Block("cifar100_tar", "all")>>
      [] l = "_load_mnist" ->
           <<Block("mnist_images", "train"), Block("mnist_labels", "train"),
             Block("mnist_images", "test"), Block("mnist_labels", "test")>>
      [] l = "_load_fashionmnist" ->
           <<Block("fashion_images", "train"), Block("fashion_labels", "train"),
             Block("fashion_images", "test"), Block("fashion_labels", "test")>>
      [] OTHER -> <<>>

\* what can raise inside a block of each kind
Causes(kind) ==
    CASE kind = "svhn_mat" -> {"urlretrieve", "loadmat"}
      [] kind = "stl10_tar" -> {"urlretrieve", "tarfile"}
      [] kind \in {"cifar10_tar", "cifar100_tar"} -> {"urlretrieve", "tarfile", "loadmat"}
      [] kind = "mnist_images" -> {"urlretrieve", "gzip", "assert 2051", "reshape"}
      [] kind = "mnist_labels" -> {"urlretrieve", "gzip", "assert 2049"}
      [] OTHER -> {"KeyError"}   \* URLS has no key 'fashion_mnist'

\* the name of the temporary file of block b of loader l
TempName(l, b) == <<"tmp", l, b>>

NamedTemporaryFile_exit_leak(tempsv, f, raised) ==
    IF raised THEN tempsv ELSE tempsv \ {f}

\* __exit__ of `with tempfile.NamedTemporaryFile() as f`: the file is deleted
NamedTemporaryFile_exit(tempsv, f, raised) == tempsv \ {f}

\* label bytes found in a source file: n values of 1..10, starting at sd
LabelBytes(sd, n) == [i \in 1..n |-> ((sd + i - 2) % 10) + 1]

\* n raw images of one source array
RawImages(tag, n) == [i \in 1..n |-> <<tag, i>>]

\* what a block decoded: an image count and a label array
Payload(n, labels) == [nimg |-> n, labels |-> labels]

\* a split as the loaders return it
Dataset(tag, payloadImages, labels) ==
    [images |-> _encode_png(RawImages(tag, payloadImages.nimg)), labels |-> labels]

\* splits[split] = dataset
DictSet(d, k, v) == [x \in (DOMAIN d) \cup {k} |-> IF x = k THEN v ELSE d[x]]

SvhnLabelMinus1(y) == (y - 1) % 256

\* dataset['labels'] %= 10
SvhnLabel(y) == y % 10

SvhnLabels(ys) == [i \in 1..Len(ys) |-> SvhnLabel(ys[i])]

\* np.frombuffer(..., dtype=np.uint8) - 1
Uint8Minus1(ys) == [i \in 1..Len(ys) |-> (ys[i] + 255) % 256]

\* np.concatenate of the label arrays of batches b..CifarBatches
RECURSIVE ConcatBatches(_, _, _)
ConcatBatches(sd, n, b) ==
    IF b > CifarBatches THEN <<>>
    ELSE LabelBytes(sd + b, n) \o ConcatBatches(sd, n, b + 1)

LdInit ==
    /\ lname = "none" /\ lpc = "idle" /\ lblk = 0 /\ temps = {} /\ made = {}
    /\ exc = "" /\ lacc = <<>> /\ lres = <<>> /\ seed = 1 /\ rawY = <<>>

\* a loader is called; the source data it will find starts at label `sd`
LoaderCall ==
    /\ lpc = "idle"
    /\ \E l \in Loaders :
         /\ lname' = l
         /\ \E d \in (IF l = "_load_voets" THEN Disks ELSE {disk}) : disk' = d
    /\ \E sd \in 1..10 : seed' = sd
    /\ lpc' = "next"
    /\ lblk' = 1
    /\ made' = {}
    /\ exc' = ""
    /\ lacc' = <<>>
    /\ lres' = <<>>
    /\ rawY' = <<>>
    /\ UNCHANGED temps
    /\ UNCHANGED <<argv, fs, pc, it, installed, datas, loaderCalls, processed,
                   considered, fs0, prev, runs, errs>>
    /\ UNCHANGED <<wrVars, ufVars>>

\* with tempfile.NamedTemporaryFile() as f:
BlockEnter ==
    /\ lpc = "next"
    /\ lblk <= Len(Blocks(lname))
    /\ temps' = temps \cup {TempName(lname, lblk)}
    /\ made' = made \cup {TempName(lname, lblk)}
    /\ lpc' = "body"
    /\ UNCHANGED <<lname, lblk, exc, lacc, lres, seed, rawY>>
    /\ LdFrame

InBody(kind) ==
    /\ lpc = "body"
    /\ Blocks(lname)[lblk].kind = kind

BodyDone ==
    /\ lpc' = "exit"
    /\ UNCHANGED <<lname, lblk, temps, made, exc, lres, seed>>
    /\ LdFrame

\* urlretrieve, scipy.io.loadmat: X holds nx images, y holds ny labels
SvhnBody ==
    /\ InBody("svhn_mat")
    /\ \E nx \in 0..MaxN, ny \in 0..MaxN :
         /\ lacc' = ("data_dict" :> Payload(nx, LabelBytes(seed, ny)))
         /\ rawY' = DictSet(rawY, Blocks(lname)[lblk].split, LabelBytes(seed, ny))
    /\ BodyDone

\* the archive (the local stl10/stl10_binary.tar.gz read through GFile, or the
\* download) holds the five .bin members; nothing relates their sizes
Stl10Body ==
    /\ InBody("stl10_tar")
    /\ \E ntx \in 0..MaxN, nty \in 0..MaxN, nsx \in 0..MaxN, nsy \in 0..MaxN,
          nux \in 0..MaxN :
         lacc' = ("train" :> Payload(ntx, Uint8Minus1(LabelBytes(seed, nty))))
                 @@ ("test" :> Payload(nsx, Uint8Minus1(LabelBytes(seed, nsy))))
                 @@ ("unlabeled" :> Payload(nux, Zeros(StlUnlabeled)))
    /\ UNCHANGED rawY
    /\ BodyDone

\* data_batch_1..5.mat with nd rows and nl labels each, and test_batch.mat
Cifar10Body ==
    /\ InBody("cifar10_tar")
    /\ \E nd \in 0..MaxN, nl \in 0..MaxN, ndt \in 0..MaxN, nlt \in 0..MaxN :
         lacc' = ("train" :> Payload(CifarBatches * nd, ConcatBatches(seed, nl, 1)))
                 @@ ("test" :> Payload(ndt, LabelBytes(seed, nlt)))
    /\ UNCHANGED rawY
    /\ BodyDone

\* train.mat and test.mat, each with 'data' and 'fine_labels'
Cifar100Body ==
    /\ InBody("cifar100_tar")
    /\ \E nd \in 0..MaxN, nl \in 0..MaxN, ndt \in 0..MaxN, nlt \in 0..MaxN :
         lacc' = ("train" :> Payload(nd, LabelBytes(seed, nl)))
                 @@ ("test" :> Payload(ndt, LabelBytes(seed, nlt)))
    /\ UNCHANGED rawY
    /\ BodyDone

\* the image file: magic 2051, n_images, row, col and all the pixel bytes
MnistImagesBody ==
    /\ InBody("mnist_images")
    /\ \E n_images \in 0..MaxN :
         lacc' = ("images" :> Payload(n_images, <<>>))
    /\ UNCHANGED rawY
    /\ BodyDone

\* the label file: magic 2049, n_labels, and data.read(n_labels) of `avail` bytes
MnistLabelsBody ==
    /\ InBody("mnist_labels")
    /\ \E n_labels \in 0..MaxN, avail \in 0..MaxN :
         lacc' = DictSet(lacc, "labels",
                         Payload(0, LabelBytes(seed, Min(n_labels, avail))))
    /\ UNCHANGED rawY
    /\ BodyDone

\* something in the block raises; the exception leaves the block
BodyRaises ==
    /\ lpc = "body"
    /\ \E cause \in Causes(Blocks(lname)[lblk].kind) : exc' = cause
    /\ lpc' = "exit"
    /\ UNCHANGED <<lname, lblk, temps, made, lacc, lres, seed, rawY>>
    /\ LdFrame

\* the statements between the end of a block and the next one
AfterBlock(kind, split, acc, res) ==
    CASE kind = "svhn_mat" ->
           DictSet(res, split,
                   Dataset(<<"svhn", split>>, acc["data_dict"],
                           SvhnLabels(acc["data_dict"].labels)))
      [] kind = "mnist_labels" ->
           DictSet(res, split,
                   Dataset(<<"mnist", split>>, acc["images"], acc["labels"].labels))
      [] kind \in {"cifar10_tar", "cifar100_tar"} ->
           ("train" :> Dataset(<<kind, "train">>, acc["train"], acc["train"].labels))
           @@ ("test" :> Dataset(<<kind, "test">>, acc["test"], acc["test"].labels))
      [] kind = "stl10_tar" ->
           ("train" :> Dataset(<<kind, "train">>, acc["train"], acc["train"].labels))
           @@ ("test" :> Dataset(<<kind, "test">>, acc["test"], acc["test"].labels))
           @@ ("unlabeled" :> Dataset(<<kind, "unlabeled">>, acc["unlabeled"],
                                      acc["unlabeled"].labels))
           @@ ("files" :> <<[filename |-> "stl10_fold_indices.txt",
                             data |-> "fold_indices"]>>)
      [] OTHER -> res

\* the block is left: the temporary file goes, an exception goes on up
BlockExit ==
    /\ lpc = "exit"
    /\ temps' = NamedTemporaryFile_exit(temps, TempName(lname, lblk), exc # "")
    /\ IF exc # ""
       THEN /\ lpc' = "raised"
            /\ UNCHANGED <<lblk, lres>>
       ELSE /\ lpc' = "next"
            /\ lblk' = lblk + 1
            /\ lres' = AfterBlock(Blocks(lname)[lblk].kind, Blocks(lname)[lblk].split,
                                  lacc, lres)
    /\ UNCHANGED <<lname, made, exc, lacc, seed, rawY>>
    /\ LdFrame

\* return splits; _load_voets does all its work here, on the local folder
LoaderReturn ==
    /\ lpc = "next"
    /\ lblk > Len(Blocks(lname))
    /\ IF lname = "_load_voets"
       THEN IF VoetsRaises(disk)
            THEN lpc' = "raised" /\ exc' = "listdir" /\ UNCHANGED lres
            ELSE /\ lpc' = "returned"
                 /\ lres' = ("train" :> _load_voets(disk)[1][2])
                            @@ ("test" :> _load_voets(disk)[2][2])
                 /\ UNCHANGED exc
       ELSE lpc' = "returned" /\ UNCHANGED <<lres, exc>>
    /\ UNCHANGED <<lname, lblk, temps, made, lacc, seed, rawY>>
    /\ LdFrame

NextLoaders ==
    \/ LoaderCall
    \/ BlockEnter
    \/ SvhnBody
    \/ Stl10Body
    \/ Cifar10Body
    \/ Cifar100Body
    \/ MnistImagesBody
    \/ MnistLabelsBody
    \/ BodyRaises
    \/ BlockExit
    \/ LoaderReturn

---------------------------------------------------------------------------
(* unflatten of _load_cifar10, _load_cifar100 and _load_stl10 *)

\* colour channels: the 3 of reshape((-1, 3, 96, 96)) and reshape((n, 3, 32, 32))
Channels == 3

\* an array of four axes: its shape and its element at each 0-based index
Array4(shape, at) == [shape |-> shape, at |-> at]

Indices(shape) ==
    (0..(shape[1] - 1)) \X (0..(shape[2] - 1)) \X (0..(shape[3] - 1))
        \X (0..(shape[4] - 1))

\* images.reshape((n, d1, d2, d3)) of a buffer in C order
Reshape4(flat, n, d1, d2, d3) ==
    Array4(<<n, d1, d2, d3>>,
           [x \in Indices(<<n, d1, d2, d3>>) |->
                flat[x[1] * d1 * d2 * d3 + x[2] * d2 * d3 + x[3] * d3 + x[4] + 1]])

\* np.transpose(a, axes): axis m of the result is axis axes[m] of a (0-based)
Transpose(a, axes) ==
    LET shape == [m \in 1..4 |-> a.shape[axes[m] + 1]]
        \* the index into a of the element the result has at index x
        Source(x) == [k \in 1..4 |-> x[CHOOSE m \in 1..4 : axes[m] + 1 = k]]
    IN  Array4(shape, [x \in Indices(shape) |-> a.at[Source(x)]])

\* the batch size reshape infers (-1), or images.shape[0]
BatchOf(flat, side) == Len(flat) \div (Channels * side * side)

\* reshape raises ValueError unless the buffer is a whole number of images
Reshapable(flat, side) == Len(flat) % (Channels * side * side) = 0

unflatten_as_cifar(images) ==
    Transpose(Reshape4(images, BatchOf(images, StlSide), Channels, StlSide, StlSide),
              <<0, 2, 3, 1>>)

\* _load_stl10.unflatten
unflatten_stl10(images) ==
    Transpose(Reshape4(images, BatchOf(images, StlSide), Channels, StlSide, StlSide),
              <<0, 3, 2, 1>>)

\* _load_cifar10.unflatten
unflatten_cifar10(images) ==
    Transpose(Reshape4(images, BatchOf(images, CifarSide), Channels, CifarSide,
                       CifarSide),
              <<0, 2, 3, 1>>)

\* _load_cifar100.unflatten
unflatten_cifar100(images) ==
    Transpose(Reshape4(images, BatchOf(images, CifarSide), Channels, CifarSide,
                       CifarSide),
              <<0, 2, 3, 1>>)

\* uint8 buffers of known synthetic values, all distinct
Buffer(len, off, mult) == [i \in 1..len |-> (off + mult * (i - 1)) % 256]

Buffers ==
    {Buffer(n * Channels * side * side, off, mult) :
        n \in 0..MaxBatch, side \in {CifarSide, StlSide},
        off \in 0..15, mult \in {1, 3, 5}}

NoArray == Array4(<<0, 0, 0, 0>>, <<>>)

UfInit ==
    /\ upc = "start"
    /\ uFlat \in Buffers
    /\ uOut = NoArray

\* unflatten(train_set['images']) in _load_cifar10
UnflattenCifar10 ==
    /\ upc = "start"
    /\ IF Reshapable(uFlat, CifarSide)
       THEN upc' = "cifar10" /\ uOut' = unflatten_cifar10(uFlat)
       ELSE upc' = "raised" /\ uOut' = uOut
    /\ UNCHANGED uFlat
    /\ UfFrame

\* unflatten(train_set['images']) in _load_cifar100
UnflattenCifar100 ==
    /\ upc = "start"
    /\ IF Reshapable(uFlat, CifarSide)
       THEN upc' = "cifar100" /\ uOut' = unflatten_cifar100(uFlat)
       ELSE upc' = "raised" /\ uOut' = uOut
    /\ UNCHANGED uFlat
    /\ UfFrame

\* unflatten(train_set['images']) in _load_stl10
UnflattenStl10 ==
    /\ upc = "start"
    /\ IF Reshapable(uFlat, StlSide)
       THEN upc' = "stl10" /\ uOut' = unflatten_stl10(uFlat)
       ELSE upc' = "raised" /\ uOut' = uOut
    /\ UNCHANGED uFlat
    /\ UfFrame

NextUnflatten ==
    \/ UnflattenCifar10
    \/ UnflattenCifar100
    \/ UnflattenStl10

---------------------------------------------------------------------------
(* Specifications *)

LdIdle ==
    /\ lname = "none" /\ lpc = "off" /\ lblk = 0 /\ temps = {} /\ made = {}
    /\ exc = "" /\ lacc = <<>> /\ lres = <<>> /\ seed = 1 /\ rawY = <<>>

UfIdle ==
    /\ upc = "off" /\ uFlat = <<>> /\ uOut = NoArray

Init == DrvInit /\ WrIdle /\ LdIdle /\ UfIdle

Spec == Init /\ [][Next]_vars

InitWriter == DrvIdle /\ WrInit /\ LdIdle /\ UfIdle

SpecWriter == InitWriter /\ [][NextWriter]_vars

InitLoaders == DrvIdle /\ WrIdle /\ LdInit /\ UfIdle

SpecLoaders == InitLoaders /\ [][NextLoaders]_vars

InitUnflatten == DrvIdle /\ WrIdle /\ LdIdle /\ UfInit

SpecUnflatten == InitUnflatten /\ [][NextUnflatten]_vars

---------------------------------------------------------------------------
(* Properties of the driver, checked under Spec *)

\* the file '<name>-<split>.tfrecord' under the data directory
TfrecordFile(name, split) == <<name, "-", split, ".tfrecord">>

\* the output files expected of the configured dataset
VoetsExpected == {TfrecordFile("voets", "train"), TfrecordFile("voets", "test")}

\* C1: when every expected output file of the dataset exists as a run of main
\* begins, that run invokes no loader and writes or changes no file.
C1_SkipIfInstalled ==
    (pc # "idle" /\ VoetsExpected \subseteq DOMAIN fs0)
        => (loaderCalls = 0 /\ processed = {} /\ fs = fs0)

C1_Witness ==
    /\ pc = "done"
    /\ considered = {"voets"}
    /\ VoetsExpected \subseteq DOMAIN fs0
    /\ disk.present
    /\ disk.train0 > 0

\* C2: _is_installed returns true iff the file of every split of checksums
\* exists; content and other splits' files do not matter; no file changes.
C2_IsInstalledIff ==
    pc = "checked"
        => /\ installed = (\A split \in {"train", "test"} :
                               TfrecordFile("voets", split) \in DOMAIN fs)
           /\ fs = fs0

C2_Witness ==
    /\ pc = "checked"
    /\ installed
    /\ TfrecordFile("voets", "extra") \notin DOMAIN fs
    /\ fs[TfrecordFile("voets", "train")] = Truncated
    /\ fs[TfrecordFile("voets", "test")] = Stale

\* C5: main processes exactly the requested names that are configured: an
\* unconfigured name is ignored without error, an unrequested configured
\* name is left untouched, and no argument requests every configured name.
C5_RequestedAndConfigured ==
    /\ processed \subseteq considered
    /\ considered \subseteq {"voets"}
    /\ DOMAIN fs \subseteq (DOMAIN fs0) \cup VoetsExpected
    /\ pc = "done"
         => considered = (IF argv = <<>> THEN {"voets"}
                          ELSE Range(argv) \cap {"voets"})
    /\ (pc # "idle" /\ argv # <<>> /\ "voets" \notin Range(argv))
         => (pc \in {"loop", "done"} /\ loaderCalls = 0 /\ fs = fs0)

C5_Witness ==
    /\ pc = "done"
    /\ argv = <<"voets", "bogus">>
    /\ processed = {"voets"}
    /\ errs = 0

\* C6: an exception of a loader or of the writer ends the run at that point:
\* nothing is loaded or written afterwards in that run, and no file that
\* exists is deleted or, unless it is the file being written, changed.
C6_ErrorsEndTheRun ==
    [][ /\ errs' > errs
            => /\ pc' = "raised"
               /\ \A p \in DOMAIN fs :
                    /\ p \in DOMAIN fs'
                    /\ fs'[p] # fs[p]
                         => (pc = "save" /\ p = TfrecordFile("voets", datas[1][1]))
        /\ (pc = "raised" /\ runs' = runs)
            => (fs' = fs /\ loaderCalls' = loaderCalls /\ pc' = pc)
      ]_vars

C6_Witness ==
    /\ pc = "raised"
    /\ errs = 1
    /\ Len(datas) = 1
    /\ TfrecordFile("voets", "train") \in DOMAIN fs
    /\ TfrecordFile("voets", "train") \notin DOMAIN fs0
    /\ TfrecordFile("voets", "test") \in DOMAIN fs
    /\ TfrecordFile("voets", "test") \notin DOMAIN fs0
    /\ Len(fs[TfrecordFile("voets", "test")]) < Len(datas[1][2].images)

\* C10: a run that processed the dataset and completed leaves it installed,
\* and the next run with the same arguments invokes no loader, writes no file.
C10_InstalledAfterRun ==
    /\ (pc = "done" /\ processed # {})
         => /\ \A name \in processed : \A split \in {"train", "test"} :
                  TfrecordFile(name, split) \in DOMAIN fs
            /\ _is_installed(fs, "voets", CONFIGS.voets.checksums)
    /\ (runs >= 2 /\ prev.status = "done" /\ prev.processed # {} /\ argv = prev.argv)
         => (loaderCalls = 0 /\ processed = {} /\ fs = fs0)

C10_Witness ==
    /\ runs = 2
    /\ pc = "done"
    /\ prev.status = "done"
    /\ prev.processed = {"voets"}
    /\ argv = prev.argv
    /\ considered = {"voets"}

---------------------------------------------------------------------------
(* Property of the encoder and the writer, checked under SpecWriter *)

\* C3: for N raw images and N labels the container file holds exactly N
\* records in index order, record i holding the two fields image (the
\* encoding of raw image i) and label (label i).
C3_RecordsInOrder ==
    /\ wpc = "raised" => Len(wRaw) # Len(wLabels)
    /\ wpc = "saved"
         => /\ Len(wRaw) = Len(wLabels)
            /\ DOMAIN wFs = {TfrecordFile("synthetic", "train")}
            /\ LET file == wFs[TfrecordFile("synthetic", "train")]
               IN  /\ Len(file) = Len(wRaw)
                   /\ \A i \in 1..Len(wRaw) :
                        /\ DOMAIN file[i] = {"image", "label"}
                        /\ file[i].image = to_png(wRaw[i])
                        /\ file[i].label = wLabels[i]

C3_Witness ==
    /\ wpc = "saved"
    /\ Len(wRaw) >= 2
    /\ wRaw[1] # wRaw[2]
    /\ wLabels[1] # wLabels[2]

---------------------------------------------------------------------------
(* Properties of the loaders, checked under SpecLoaders *)

\* the keys of a loader's result that are splits
SplitsOf(res) == (DOMAIN res) \ {"files", "readme"}

\* C4: every split a loader returns has as many images as labels, whatever
\* the counts found in the source data.
C4_ImagesMatchLabels ==
    lpc = "returned"
        => \A split \in SplitsOf(lres) :
               Len(lres[split].images) = Len(lres[split].labels)

\* C7: every temporary file a loader created is gone when the block that
\* created it is left, normally or by an exception, and so when the loader
\* returns or raises.
C7_TempFilesDeleted ==
    /\ lpc \in {"next", "returned", "raised"} => temps = {}
    /\ lpc \in {"returned", "raised"} => made \cap temps = {}
    /\ lpc \in {"body", "exit"} => temps = {TempName(lname, lblk)}

C7_Witness ==
    /\ lpc = "raised"
    /\ lname = "_load_mnist"
    /\ exc = "assert 2049"
    /\ Cardinality(made) = 4
    /\ temps = {}

\* C8: _load_svhn returns label 0 for the raw label 10 and the raw label
\* itself for 1..9, in the order and number of the raw labels.
C8_SvhnLabels ==
    (lname = "_load_svhn" /\ lpc = "returned")
        => \A split \in {"train", "test", "extra"} :
               /\ split \in DOMAIN lres
               /\ Len(lres[split].labels) = Len(rawY[split])
               /\ \A i \in 1..Len(rawY[split]) :
                    /\ rawY[split][i] \in 1..10
                    /\ lres[split].labels[i] =
                         (IF rawY[split][i] = 10 THEN 0 ELSE rawY[split][i])

C8_Witness ==
    /\ lname = "_load_svhn"
    /\ lpc = "returned"
    /\ rawY["train"] = <<9, 10>>
    /\ lres["train"].labels = <<9, 0>>
    /\ rawY["extra"] = <<9>>

---------------------------------------------------------------------------
(* Property of unflatten, checked under SpecUnflatten *)

\* the value of a buffer at a 0-based offset
AtOffset(flat, k) == flat[k + 1]

\* the values an array holds, and how many elements it has
ValuesOf(a) == {a.at[x] : x \in DOMAIN a.at}

=============================================================================
